---- MODULE Spec2Model ----
(***************************************************************************)
(* Model of attach_hotspot_windows.c: the stub execute_remote_attach that  *)
(* runs in the target JVM, and the two injector functions allocate_code    *)
(* and allocate_remote_argument that populate the target's memory.         *)
(*                                                                         *)
(* Memory is modelled as flat byte arrays (functions 0..n-1 -> 0..255).    *)
(* Pointers, handles and DWORDs are stored little-endian.                  *)
(***************************************************************************)
EXTENDS Integers, Sequences, FiniteSets, TLC

(* ------------------------------------------------------------------ *)
(* Program constants                                                   *)
(* ------------------------------------------------------------------ *)

\* #define ENQUEUE_ERROR 0xffff
ENQUEUE_ERROR == 65535

\* #define CODE_SIZE 1024
CODE_SIZE == 1024

\* MAX_PATH of <windows.h>, the capacity of pipe and of each argument field
MAX_PATH == 260

\* char library[32]
LIBRARY_SIZE == 32

\* char command[32]
COMMAND_SIZE == 32

\* sizeof of a pointer and of a HANDLE on the x64 build
POINTER_SIZE == 8

\* sizeof(DWORD)
DWORD_SIZE == 4

NULL == 0

(* ------------------------------------------------------------------ *)
(* Bounds of the model                                                 *)
(* ------------------------------------------------------------------ *)

\* Length of the longest input string tried (beyond every field capacity).
MaxStrLen == 266

\* Length of the short non-empty input string tried.
ShortLen == 2

(* ------------------------------------------------------------------ *)
(* Bytes, strings, little-endian values                                *)
(* ------------------------------------------------------------------ *)

\* The n low bytes of v, least significant first (two's complement for v < 0).
RECURSIVE LittleEndian(_, _)
LittleEndian(v, n) ==
    IF n = 0 THEN <<>> ELSE <<v % 256>> \o LittleEndian(v \div 256, n - 1)

\* A C string literal / caller string as its bytes without the terminator.
JvmLiteral == <<106, 118, 109>>

CommandLiteral ==
    <<74, 86, 77, 95, 69, 110, 113, 117, 101, 117, 101,
      79, 112, 101, 114, 97, 116, 105, 111, 110>>

EmptyLiteral == <<>>

\* An input string of n bytes, none of them the terminator.
StringOfLen(n) == [i \in 1..n |-> 97 + (i % 2)]

(* ------------------------------------------------------------------ *)
(* Layout of the EnqueueOperation struct                               *)
(* ------------------------------------------------------------------ *)

OffGetModuleHandleA == 0
OffGetProcAddress == POINTER_SIZE
OffLibrary == 2 * POINTER_SIZE
OffCommand == OffLibrary + LIBRARY_SIZE
OffPipe == OffCommand + COMMAND_SIZE
OffArgument(i) == OffPipe + MAX_PATH + i * MAX_PATH

\* sizeof(EnqueueOperation): the fields, padded to the pointer alignment.
SizeofEnqueueOperation ==
    LET raw == OffArgument(4)
    IN  ((raw + POINTER_SIZE - 1) \div POINTER_SIZE) * POINTER_SIZE

(* ------------------------------------------------------------------ *)
(* Addresses of the injecting process and of the target                *)
(* ------------------------------------------------------------------ *)

\* Addresses of kernel32 functions (the same in both processes).
AddrGetModuleHandleA == 4096 * 1800 + 16
AddrGetProcAddress == 4096 * 1800 + 272

\* The value of the process HANDLE held by the injecting process.
ProcessHandleValue == 4 * 105

\* Base addresses VirtualAllocEx hands out in the target, in order.
RegionBase(k) == 65536 * k

(* ------------------------------------------------------------------ *)
(* C library: strcpy and reading a null-terminated string              *)
(* ------------------------------------------------------------------ *)

\* A copy of the bytes of s that leaves the terminator out.
StrcpyNoTerminator(mem, off, s) ==
    [i \in DOMAIN mem |->
        IF i >= off /\ i < off + Len(s) THEN s[i - off + 1] ELSE mem[i]]

\* strcpy(mem + off, s): the bytes of s and the terminator, written into the
\* flat memory from off on; bytes that fall beyond mem are not part of mem.
Strcpy(mem, off, s) ==
    [i \in DOMAIN mem |->
        IF i >= off /\ i < off + Len(s) THEN s[i - off + 1]
        ELSE IF i = off + Len(s) THEN 0
        ELSE mem[i]]

\* Whether strcpy(mem + off, s) writes beyond the end of mem.
WritesPast(size, off, s) == off + Len(s) >= size

\* The string read at mem + off: the bytes up to the first terminator
\* (or up to the end of mem when there is none).
Terminates(mem, off, n) == off + n \notin DOMAIN mem \/ mem[off + n] = 0

StrLenFrom(mem, off) ==
    CHOOSE n \in 0..Cardinality(DOMAIN mem) :
        /\ Terminates(mem, off, n)
        /\ \A m \in 0..(n - 1) : ~Terminates(mem, off, m)

CString(mem, off) ==
    [i \in 1..StrLenFrom(mem, off) |-> mem[off + i - 1]]

\* memcpy of the bytes src (a sequence) into mem at off.
StoreBytes(mem, off, src) ==
    [i \in DOMAIN mem |->
        IF i >= off /\ i < off + Len(src) THEN src[i - off + 1] ELSE mem[i]]

\* The n bytes of mem at off, as a sequence.
LoadBytes(mem, off, n) == [i \in 1..n |-> mem[off + i - 1]]

(* ------------------------------------------------------------------ *)
(* State                                                               *)
(* ------------------------------------------------------------------ *)

VARIABLES
    pc,            \* position of the injecting side in the attach attempt
    target,        \* the target process's regions: index -> region record
    code,          \* allocate_code: local variable code
    codeResult,    \* value returned by allocate_code
    pipe,          \* allocate_remote_argument: parameter pipe
    argument,      \* allocate_remote_argument: parameters argument0..argument3
    operation,     \* allocate_remote_argument: local EnqueueOperation, as bytes
    overrun,       \* a strcpy wrote beyond the field it was given
    smashed,       \* a strcpy wrote beyond the local EnqueueOperation
    allocation,    \* allocate_remote_argument: local variable allocation
    argResult,     \* value returned by allocate_remote_argument
    log,           \* the cross-process calls made so far, in order
    spc,           \* position of the stub running in the target
    block,         \* the memory the stub's argument points to
    jvm,           \* the target: is a module "jvm" loaded, does it export the symbol
    entryReturn,   \* the int the target's JVM_EnqueueOperation returns
    library,       \* execute_remote_attach: local variable library
    entry,         \* execute_remote_attach: local JVM_EnqueueOperation
    exitCode,      \* value returned by execute_remote_attach (bytes of a DWORD)
    refs,          \* addresses the stub has referenced, by owner
    trace          \* calls the stub has made, in order

injectorVars ==
    <<pc, target, code, codeResult, pipe, argument, operation, overrun, smashed,
      allocation, argResult, log>>

stubVars ==
    <<spc, block, jvm, entryReturn, library, entry, exitCode, refs, trace>>

vars == <<injectorVars, stubVars>>

(* ------------------------------------------------------------------ *)
(* The target process's memory and the Win32 calls on it               *)
(* ------------------------------------------------------------------ *)

Regions == 1..2

FreeRegion == [committed |-> FALSE, size |-> 0, protect |-> "none", bytes |-> <<>>]

Committed(t) == {k \in Regions : t[k].committed}

\* The region VirtualAllocEx(process, NULL, size, MEM_COMMIT, protect) commits
\* when it succeeds: the first free one, zero-filled.
AllocIndex(t) == CHOOSE k \in Regions \ Committed(t) :
                    \A j \in Regions \ Committed(t) : k <= j

VirtualAllocEx(t, size, protect) ==
    [t EXCEPT ![AllocIndex(t)] =
        [committed |-> TRUE, size |-> size, protect |-> protect,
         bytes |-> [i \in 0..(size - 1) |-> 0]]]

\* VirtualFreeEx(process, address, size, MEM_RELEASE): releases the region whose
\* base address is given, and only with size 0; any other call fails and
\* leaves the target as it is.
VirtualFreeEx(t, address, size) ==
    IF size = 0 /\ \E k \in Committed(t) : RegionBase(k) = address
    THEN [k \in Regions |->
            IF t[k].committed /\ RegionBase(k) = address THEN FreeRegion ELSE t[k]]
    ELSE t

\* WriteProcessMemory(process, base, src, n, NULL) when it succeeds.
WriteProcessMemory(t, base, src) ==
    [k \in Regions |->
        IF t[k].committed /\ RegionBase(k) = base
        THEN [t[k] EXCEPT !.bytes = StoreBytes(@, 0, src)]
        ELSE t[k]]

Call(fn, api, ok) == [fn |-> fn, api |-> api, ok |-> ok]

(* ------------------------------------------------------------------ *)
(* allocate_code                                                       *)
(* ------------------------------------------------------------------ *)

\* The CODE_SIZE bytes read at the address of execute_remote_attach.
StubCode == [i \in 1..CODE_SIZE |-> 1 + (i % 255)]

\* An allocate_code that tries VirtualAllocEx again after it failed.
CodeAfterAllocRetry(ok) == IF ok THEN "code_write" ELSE "code_alloc"

\* Where allocate_code goes after VirtualAllocEx returned.
CodeAfterAlloc(ok) == IF ok THEN "code_write" ELSE "code_ret"

\* line 59-61
AllocateCode_VirtualAllocEx ==
    /\ pc = "code_alloc"
    /\ \E ok \in BOOLEAN :
        /\ log' = Append(log, Call("allocate_code", "VirtualAllocEx", ok))
        /\ pc' = CodeAfterAlloc(ok)
        /\ IF ok
           THEN /\ target' = VirtualAllocEx(target, CODE_SIZE, "PAGE_EXECUTE_READWRITE")
                /\ code' = RegionBase(AllocIndex(target))
                /\ UNCHANGED codeResult
           ELSE /\ code' = NULL
                /\ codeResult' = NULL
                /\ UNCHANGED target
    /\ UNCHANGED <<pipe, argument, operation, overrun, smashed, allocation, argResult>>
    /\ UNCHANGED stubVars

\* line 62, 65-66
AllocateCode_WriteProcessMemory ==
    /\ pc = "code_write"
    /\ \E ok \in BOOLEAN :
        /\ log' = Append(log, Call("allocate_code", "WriteProcessMemory", ok))
        /\ IF ok
           THEN /\ target' = WriteProcessMemory(target, code, StubCode)
                /\ codeResult' = code
                /\ pc' = "code_ret"
           ELSE /\ pc' = "code_free"
                /\ UNCHANGED <<target, codeResult>>
    /\ UNCHANGED <<code, pipe, argument, operation, overrun, smashed, allocation, argResult>>
    /\ UNCHANGED stubVars

\* line 63-64: VirtualFreeEx(process, NULL, CODE_SIZE, MEM_RELEASE); return NULL
AllocateCode_Release ==
    /\ pc = "code_free"
    /\ target' = VirtualFreeEx(target, NULL, CODE_SIZE)
    /\ log' = Append(log, Call("allocate_code", "VirtualFreeEx", target' # target))
    /\ codeResult' = NULL
    /\ pc' = "code_ret"
    /\ UNCHANGED <<code, pipe, argument, operation, overrun, smashed, allocation, argResult>>
    /\ UNCHANGED stubVars

(* ------------------------------------------------------------------ *)
(* allocate_remote_argument                                            *)
(* ------------------------------------------------------------------ *)

\* A const char * parameter: <<>> is NULL, <<s>> points to the string s.
NullString == <<>>
PointerTo(s) == <<s>>

\* argumentN == NULL ? "" : argumentN, as the string strcpy then reads.
ArgumentOrEmpty(a) == IF a = NullString THEN EmptyLiteral ELSE a[1]

\* The local EnqueueOperation after lines 86-94, over the stack bytes stack.
BuildOperation(stack, p, a) ==
    LET m1 == StoreBytes(stack, OffGetModuleHandleA,
                         LittleEndian(AddrGetModuleHandleA, POINTER_SIZE))
        m2 == StoreBytes(m1, OffGetProcAddress,
                         LittleEndian(AddrGetProcAddress, POINTER_SIZE))
        m3 == Strcpy(m2, OffLibrary, JvmLiteral)
        m4 == Strcpy(m3, OffCommand, CommandLiteral)
        m5 == Strcpy(m4, OffPipe, p[1])
        m6 == Strcpy(m5, OffArgument(0), ArgumentOrEmpty(a[1]))
        m7 == Strcpy(m6, OffArgument(1), ArgumentOrEmpty(a[2]))
        m8 == Strcpy(m7, OffArgument(2), ArgumentOrEmpty(a[3]))
    IN  Strcpy(m8, OffArgument(3), ArgumentOrEmpty(a[4]))

\* Whether strcpy(field, s) writes beyond a field of the given capacity.
StrcpyOverruns(capacity, s) == Len(s) + 1 > capacity

\* Whether one of the strcpy calls of lines 88-94 writes beyond its field.
BuildOverruns(p, a) ==
    \/ StrcpyOverruns(LIBRARY_SIZE, JvmLiteral)
    \/ StrcpyOverruns(COMMAND_SIZE, CommandLiteral)
    \/ StrcpyOverruns(MAX_PATH, p[1])
    \/ \E i \in 1..4 : StrcpyOverruns(MAX_PATH, ArgumentOrEmpty(a[i]))

\* Whether one of the strcpy calls of lines 90-94 writes beyond the struct.
BuildWritesPast(p, a) ==
    \/ WritesPast(SizeofEnqueueOperation, OffPipe, p[1])
    \/ \E i \in 1..4 :
        WritesPast(SizeofEnqueueOperation, OffArgument(i - 1), ArgumentOrEmpty(a[i]))

\* The bytes WriteProcessMemory is given at line 98: &process, sizeof(process).
ArgumentCopySource(op) == LittleEndian(ProcessHandleValue, POINTER_SIZE)

\* What an uninitialised stack byte may hold.
StackGarbage == {0, 204}

\* line 85-94; a write beyond the local struct corrupts the frame, after
\* which the call either crashes or goes on.
AllocateRemoteArgument_Build ==
    /\ pc = "arg_build"
    /\ \E g \in StackGarbage :
        operation' = BuildOperation([i \in 0..(SizeofEnqueueOperation - 1) |-> g],
                                    pipe, argument)
    /\ overrun' = BuildOverruns(pipe, argument)
    /\ smashed' = BuildWritesPast(pipe, argument)
    /\ \/ pc' = "arg_alloc"
       \/ smashed' /\ pc' = "crashed"
    /\ UNCHANGED <<target, code, codeResult, pipe, argument, allocation, argResult, log>>
    /\ UNCHANGED stubVars

\* Where allocate_remote_argument goes after VirtualAllocEx returned.
ArgumentAfterAlloc(ok) == IF ok THEN "arg_write" ELSE "arg_ret"

\* line 95-97
AllocateRemoteArgument_VirtualAllocEx ==
    /\ pc = "arg_alloc"
    /\ \E ok \in BOOLEAN :
        /\ log' = Append(log, Call("allocate_remote_argument", "VirtualAllocEx", ok))
        /\ pc' = ArgumentAfterAlloc(ok)
        /\ IF ok
           THEN /\ target' = VirtualAllocEx(target, SizeofEnqueueOperation, "PAGE_READWRITE")
                /\ allocation' = RegionBase(AllocIndex(target))
                /\ UNCHANGED argResult
           ELSE /\ allocation' = NULL
                /\ argResult' = NULL
                /\ UNCHANGED target
    /\ UNCHANGED <<code, codeResult, pipe, argument, operation, overrun, smashed>>
    /\ UNCHANGED stubVars

\* line 98, 101-102
AllocateRemoteArgument_WriteProcessMemory ==
    /\ pc = "arg_write"
    /\ \E ok \in BOOLEAN :
        /\ log' = Append(log, Call("allocate_remote_argument", "WriteProcessMemory", ok))
        /\ IF ok
           THEN /\ target' = WriteProcessMemory(target, allocation,
                                                ArgumentCopySource(operation))
                /\ argResult' = allocation
                /\ pc' = "arg_ret"
           ELSE /\ pc' = "arg_free"
                /\ UNCHANGED <<target, argResult>>
    /\ UNCHANGED <<code, codeResult, pipe, argument, operation, overrun, smashed, allocation>>
    /\ UNCHANGED stubVars

\* line 99-100: VirtualFreeEx(process, NULL, sizeof(EnqueueOperation), MEM_RELEASE)
AllocateRemoteArgument_Release ==
    /\ pc = "arg_free"
    /\ target' = VirtualFreeEx(target, NULL, SizeofEnqueueOperation)
    /\ log' = Append(log, Call("allocate_remote_argument", "VirtualFreeEx",
                               target' # target))
    /\ argResult' = NULL
    /\ pc' = "arg_ret"
    /\ UNCHANGED <<code, codeResult, pipe, argument, operation, overrun, smashed, allocation>>
    /\ UNCHANGED stubVars

(* ------------------------------------------------------------------ *)
(* The caller of the two functions (one attach attempt)                *)
(* ------------------------------------------------------------------ *)

\* The pipe names and the optional arguments a caller passes: short ones,
\* ones that fill the field exactly, and ones beyond its capacity.
PipeInputs ==
    {PointerTo(StringOfLen(n)) : n \in {ShortLen, MAX_PATH - 1, MAX_PATH}}

ArgumentInputs ==
    {NullString} \cup
    {PointerTo(StringOfLen(n)) : n \in {MAX_PATH - 1, MaxStrLen}}

\* The caller starts the attempt with allocate_code(process).
Caller_CallAllocateCode ==
    /\ pc = "start"
    /\ pc' = "code_alloc"
    /\ UNCHANGED <<target, code, codeResult, pipe, argument, operation, overrun, smashed,
                   allocation, argResult, log>>
    /\ UNCHANGED stubVars

\* allocate_code returned: on NULL the attempt has failed, otherwise the
\* caller calls allocate_remote_argument(process, pipe, argument0..3).
Caller_AfterAllocateCode ==
    /\ pc = "code_ret"
    /\ IF codeResult = NULL
       THEN /\ pc' = "failed"
            /\ UNCHANGED <<pipe, argument>>
       ELSE /\ pc' = "arg_build"
            /\ pipe' \in PipeInputs
            /\ argument' \in [1..4 -> ArgumentInputs]
    /\ UNCHANGED <<target, code, codeResult, operation, overrun, smashed, allocation,
                   argResult, log>>
    /\ UNCHANGED stubVars

\* allocate_remote_argument returned: on NULL the caller releases the code
\* region and reports failure, otherwise both regions are ready.
Caller_AfterAllocateRemoteArgument ==
    /\ pc = "arg_ret"
    /\ IF argResult = NULL
       THEN /\ target' = VirtualFreeEx(target, codeResult, 0)
            /\ pc' = "failed"
       ELSE /\ pc' = "ready"
            /\ UNCHANGED target
    /\ UNCHANGED <<code, codeResult, pipe, argument, operation, overrun, smashed,
                   allocation, argResult, log>>
    /\ UNCHANGED stubVars

(* ------------------------------------------------------------------ *)
(* execute_remote_attach, running on a thread of the target            *)
(* ------------------------------------------------------------------ *)

\* The pointer the stub is given: where its argument block lies in the target.
StubArgument == RegionBase(2)

\* The HMODULE of the target's jvm module and the address of its export.
JvmModuleHandle == 4096 * 900
AddrJVMEnqueueOperation == JvmModuleHandle + 4096 + 64

\* The function a pointer value read from the block designates in the target.
FunctionAt(bytes) ==
    IF bytes = LittleEndian(AddrGetModuleHandleA, POINTER_SIZE) THEN "GetModuleHandleA"
    ELSE IF bytes = LittleEndian(AddrGetProcAddress, POINTER_SIZE) THEN "GetProcAddress"
    ELSE "invalid"

\* kernel32!GetModuleHandleA(name) in the target.
GetModuleHandleA(name) ==
    IF jvm.loaded /\ name = JvmLiteral THEN JvmModuleHandle ELSE NULL

\* kernel32!GetProcAddress(module, name) in the target.
GetProcAddress(module, name) ==
    IF module = JvmModuleHandle /\ jvm.exports /\ name = CommandLiteral
    THEN AddrJVMEnqueueOperation ELSE NULL

StubCall(fn, via, args, result) ==
    [fn |-> fn, via |-> via, args |-> args, result |-> result]

Ref(what, owner) == [what |-> what, owner |-> owner]

\* line 30-31: printf("execute_remote_attach"); fflush(stdout); both are direct
\* calls into the image of the process the stub was compiled in, with a
\* string literal and stdout of that image. In the target those addresses
\* hold whatever the target has there: the thread crashes or goes on.
Stub_Printf ==
    /\ spc = "printf"
    /\ refs' = refs \cup {Ref("printf", "injector"), Ref("literal", "injector"),
                          Ref("fflush", "injector"), Ref("stdout", "injector")}
    /\ trace' = Append(Append(trace, StubCall("printf", "direct", <<>>, 0)),
                       StubCall("fflush", "direct", <<>>, 0))
    /\ spc' \in {"lookup_module", "crashed"}
    /\ UNCHANGED <<block, jvm, entryReturn, library, entry, exitCode>>
    /\ UNCHANGED injectorVars

\* A stub that does not test the module handle.
AfterModuleLookupUnchecked(h) == "lookup_symbol"

\* Where the stub goes after operation->GetModuleHandleA returned h.
AfterModuleLookup(h) == IF h # NULL THEN "lookup_symbol" ELSE "return_error"

\* line 32-34
Stub_GetModuleHandle ==
    /\ spc = "lookup_module"
    /\ refs' = refs \cup {Ref("operation->GetModuleHandleA", "block"),
                          Ref("operation->library", "block"),
                          Ref("*operation->GetModuleHandleA", "blockptr")}
    /\ IF FunctionAt(LoadBytes(block, OffGetModuleHandleA, POINTER_SIZE)) = "GetModuleHandleA"
       THEN /\ library' = GetModuleHandleA(CString(block, OffLibrary))
            /\ trace' = Append(trace, StubCall("GetModuleHandleA", "operation->GetModuleHandleA",
                                               <<StubArgument + OffLibrary>>, library'))
            /\ spc' = AfterModuleLookup(library')
       ELSE /\ spc' = "crashed"
            /\ trace' = Append(trace, StubCall("invalid", "operation->GetModuleHandleA",
                                               <<StubArgument + OffLibrary>>, NULL))
            /\ UNCHANGED library
    /\ UNCHANGED <<block, jvm, entryReturn, entry, exitCode>>
    /\ UNCHANGED injectorVars

\* Where the stub goes after operation->GetProcAddress returned f.
AfterSymbolLookup(f) == IF f # NULL THEN "invoke" ELSE "return_error"

\* line 35-36
Stub_GetProcAddress ==
    /\ spc = "lookup_symbol"
    /\ refs' = refs \cup {Ref("operation->GetProcAddress", "block"),
                          Ref("operation->command", "block"),
                          Ref("*operation->GetProcAddress", "blockptr")}
    /\ IF FunctionAt(LoadBytes(block, OffGetProcAddress, POINTER_SIZE)) = "GetProcAddress"
       THEN /\ entry' = GetProcAddress(library, CString(block, OffCommand))
            /\ trace' = Append(trace, StubCall("GetProcAddress", "operation->GetProcAddress",
                                               <<library, StubArgument + OffCommand>>, entry'))
            /\ spc' = AfterSymbolLookup(entry')
       ELSE /\ spc' = "crashed"
            /\ trace' = Append(trace, StubCall("invalid", "operation->GetProcAddress",
                                               <<library, StubArgument + OffCommand>>, NULL))
            /\ UNCHANGED entry
    /\ UNCHANGED <<block, jvm, entryReturn, library, exitCode>>
    /\ UNCHANGED injectorVars

\* The arguments of the call of line 37-41, in order.
EntryArguments ==
    <<StubArgument + OffArgument(0), StubArgument + OffArgument(1),
      StubArgument + OffArgument(2), StubArgument + OffArgument(3),
      StubArgument + OffPipe>>

\* A cast that keeps only the low 16 bits.
CastToWord(v) == LittleEndian(v % 65536, DWORD_SIZE)

\* (DWORD) of the int the entry point returned, as the bytes of the DWORD.
CastToDword(v) == LittleEndian(v, DWORD_SIZE)

\* line 37-41: return (DWORD) JVM_EnqueueOperation(argument[0..3], pipe)
Stub_Invoke ==
    /\ spc = "invoke"
    /\ refs' = refs \cup {Ref("JVM_EnqueueOperation", "returned"),
                          Ref("operation->argument", "block"),
                          Ref("operation->pipe", "block")}
    /\ trace' = Append(trace, StubCall("JVM_EnqueueOperation", "JVM_EnqueueOperation",
                                       EntryArguments, entryReturn))
    /\ exitCode' = CastToDword(entryReturn)
    /\ spc' = "done"
    /\ UNCHANGED <<block, jvm, entryReturn, library, entry>>
    /\ UNCHANGED injectorVars

\* A sentinel cut to its low byte.
ErrorResultLowByte == ENQUEUE_ERROR % 256

\* The value of line 44.
ErrorResult == ENQUEUE_ERROR

\* line 44: return ENQUEUE_ERROR
Stub_ReturnError ==
    /\ spc = "return_error"
    /\ exitCode' = LittleEndian(ErrorResult, DWORD_SIZE)
    /\ spc' = "done"
    /\ UNCHANGED <<block, jvm, entryReturn, library, entry, refs, trace>>
    /\ UNCHANGED injectorVars

(* ------------------------------------------------------------------ *)
(* Specifications                                                      *)
(* ------------------------------------------------------------------ *)

NoTarget == [k \in Regions |-> FreeRegion]

InjectorIdle ==
    /\ target = NoTarget
    /\ code = NULL
    /\ codeResult = NULL
    /\ pipe = PointerTo(EmptyLiteral)
    /\ argument = [i \in 1..4 |-> NullString]
    /\ operation = <<>>
    /\ overrun = FALSE
    /\ smashed = FALSE
    /\ allocation = NULL
    /\ argResult = NULL
    /\ log = <<>>

StubIdle ==
    /\ block = <<>>
    /\ jvm = [loaded |-> FALSE, exports |-> FALSE]
    /\ entryReturn = 0
    /\ library = NULL
    /\ entry = NULL
    /\ exitCode = <<>>
    /\ refs = {}
    /\ trace = <<>>

\* One attach attempt of the injecting side.
Init ==
    /\ pc = "start"
    /\ InjectorIdle
    /\ spc = "idle"
    /\ StubIdle

Next ==
    \/ Caller_CallAllocateCode
    \/ AllocateCode_VirtualAllocEx
    \/ AllocateCode_WriteProcessMemory
    \/ AllocateCode_Release
    \/ Caller_AfterAllocateCode
    \/ AllocateRemoteArgument_Build
    \/ AllocateRemoteArgument_VirtualAllocEx
    \/ AllocateRemoteArgument_WriteProcessMemory
    \/ AllocateRemoteArgument_Release
    \/ Caller_AfterAllocateRemoteArgument

Spec == Init /\ [][Next]_vars

\* The blocks the stub is run on: blocks as lines 85-94 build them, and the
\* data region as line 95-98 leaves it in the target.
ZeroFilled(n) == [i \in 0..(n - 1) |-> 0]

StubBlocks ==
    {BuildOperation([i \in 0..(SizeofEnqueueOperation - 1) |-> 204], p, a) :
        p \in {PointerTo(StringOfLen(ShortLen)), PointerTo(StringOfLen(MAX_PATH))},
        a \in {[i \in 1..4 |-> NullString],
               <<PointerTo(StringOfLen(ShortLen)), PointerTo(EmptyLiteral),
                 PointerTo(StringOfLen(MAX_PATH - 1)), NullString>>}}
    \cup {StoreBytes(ZeroFilled(SizeofEnqueueOperation), 0, ArgumentCopySource(<<>>))}

\* Values the target's int JVM_EnqueueOperation(...) returns.
EntryReturns == {0, 1, -1, 100, ENQUEUE_ERROR, 2147483647, -2147483647 - 1}

\* One run of the stub on a thread of the target.
StubInit ==
    /\ pc = "remote"
    /\ InjectorIdle
    /\ spc = "printf"
    /\ block \in StubBlocks
    /\ jvm \in [loaded : BOOLEAN, exports : BOOLEAN]
    /\ entryReturn \in EntryReturns
    /\ library = NULL
    /\ entry = NULL
    /\ exitCode = <<>>
    /\ refs = {}
    /\ trace = <<>>

StubNext ==
    \/ Stub_Printf
    \/ Stub_GetModuleHandle
    \/ Stub_GetProcAddress
    \/ Stub_Invoke
    \/ Stub_ReturnError

SpecStub == StubInit /\ [][StubNext]_vars

(* ------------------------------------------------------------------ *)
(* Properties of the injecting side (checked under Spec)               *)
(* ------------------------------------------------------------------ *)

CallsOf(fn) == SelectSeq(log, LAMBDA e : e.fn = fn)

CountOf(calls, api) == Cardinality({i \in 1..Len(calls) : calls[i].api = api})

RegionCommitted(base) ==
    \E k \in Regions : RegionBase(k) = base /\ target[k].committed

AllocateCodeReturned == pc \notin {"start", "code_alloc", "code_write", "code_free"}

AllocateRemoteArgumentReturned == pc \in {"arg_ret", "ready", "failed"} /\ operation # <<>>

\* C1: after allocate_code or allocate_remote_argument returns NULL, a region
\* that the call allocated (VirtualAllocEx succeeded, WriteProcessMemory
\* failed) is no longer allocated in the target.
C1_RegionReleasedOnCopyFailure ==
    /\ (AllocateCodeReturned /\ codeResult = NULL /\ code # NULL)
            => ~RegionCommitted(code)
    /\ (AllocateRemoteArgumentReturned /\ argResult = NULL /\ allocation # NULL)
            => ~RegionCommitted(allocation)

\* C2: when allocate_remote_argument returns a non-NULL pointer, the region it
\* points to holds the bytes of the local EnqueueOperation, one for one.
C2_RemoteRegionHoldsBlock ==
    (AllocateRemoteArgumentReturned /\ argResult # NULL)
        => \E k \in Regions :
              /\ RegionBase(k) = argResult
              /\ target[k].committed
              /\ target[k].bytes = operation

Oversized(p, a) ==
    \/ Len(p[1]) + 1 > MAX_PATH
    \/ \E i \in 1..4 : a[i] # NullString /\ Len(a[i][1]) + 1 > MAX_PATH

\* C3: when the pipe name or an argument is longer than its field, the call
\* makes no remote call, writes no field past its capacity and returns failure.
C3_OversizedRejectedBeforeRemote ==
    Oversized(pipe, argument)
        => /\ CallsOf("allocate_remote_argument") = <<>>
           /\ ~overrun
           /\ pc \notin {"ready", "crashed"}

\* C4: for inputs that fit their fields, every field of the built block read
\* back as a null-terminated string is the input it was built from, an absent
\* argument reads back as the empty string, library reads "jvm" and command
\* reads "JVM_EnqueueOperation".
C4_BlockRoundTrips ==
    (operation # <<>> /\ ~Oversized(pipe, argument))
        => /\ CString(operation, OffPipe) = pipe[1]
           /\ \A i \in 1..4 :
                CString(operation, OffArgument(i - 1))
                    = IF argument[i] = NullString THEN <<>> ELSE argument[i][1]
           /\ CString(operation, OffLibrary) = <<106, 118, 109>>
           /\ CString(operation, OffCommand) = CommandLiteral

C4_Witness ==
    /\ operation # <<>>
    /\ ~Oversized(pipe, argument)
    /\ argument[2] = NullString
    /\ argument[1] # NullString /\ Len(argument[1][1]) = MAX_PATH - 1
    /\ argument[4] # NullString /\ Len(argument[4][1]) = MAX_PATH - 1
    /\ Len(pipe[1]) = ShortLen
    /\ operation[SizeofEnqueueOperation - 1] # 0

\* C8: when allocate_code succeeded and allocate_remote_argument failed, no
\* region of the attempt is allocated in the target once failure is reported.
C8_NothingAllocatedAfterFailure ==
    (pc = "failed" /\ codeResult # NULL) => Committed(target) = {}

\* C9: each call of allocate_code and of allocate_remote_argument makes at most
\* one VirtualAllocEx and at most one WriteProcessMemory, the copy only after
\* the allocation succeeded; after a failure of either it makes neither again
\* and returns NULL.
C9_NoInternalRetry ==
    /\ \A fn \in {"allocate_code", "allocate_remote_argument"} :
        LET calls == CallsOf(fn)
        IN  /\ CountOf(calls, "VirtualAllocEx") <= 1
            /\ CountOf(calls, "WriteProcessMemory") <= 1
            /\ \A i \in 1..Len(calls) :
                /\ calls[i].api = "WriteProcessMemory"
                    => /\ i = 2
                       /\ calls[1].api = "VirtualAllocEx"
                       /\ calls[1].ok
                /\ (calls[i].api # "VirtualFreeEx" /\ ~calls[i].ok)
                    => \A j \in (i + 1)..Len(calls) : calls[j].api = "VirtualFreeEx"
    /\ (AllocateCodeReturned
            /\ \E i \in 1..Len(log) :
                 log[i].fn = "allocate_code" /\ log[i].api # "VirtualFreeEx" /\ ~log[i].ok)
         => codeResult = NULL
    /\ (AllocateRemoteArgumentReturned
            /\ \E i \in 1..Len(log) :
                 /\ log[i].fn = "allocate_remote_argument"
                 /\ log[i].api # "VirtualFreeEx" /\ ~log[i].ok)
         => argResult = NULL

C9_Witness ==
    /\ pc = "failed"
    /\ CountOf(CallsOf("allocate_code"), "WriteProcessMemory") = 1
    /\ CountOf(CallsOf("allocate_remote_argument"), "WriteProcessMemory") = 1
    /\ argResult = NULL
    /\ allocation # NULL

(* ------------------------------------------------------------------ *)
(* Properties of the stub (checked under SpecStub)                     *)
(* ------------------------------------------------------------------ *)

\* The calls the stub made through the block or through a looked-up address.
BlockCalls == SelectSeq(trace, LAMBDA e : e.via # "direct")

\* The int a DWORD's bytes stand for when read back as a signed 32-bit value.
DwordAsInt(b) ==
    b[1] + 256 * b[2] + 65536 * b[3]
        + 16777216 * (IF b[4] >= 128 THEN b[4] - 256 ELSE b[4])

\* C5: every address the stub reads, writes or calls lies in the argument
\* block, is a function pointer stored in it, or was returned by a call made
\* through such a pointer; none belongs to the injecting process.
C5_StubTouchesOnlyBlock ==
    \A r \in refs : r.owner \in {"block", "blockptr", "returned"}

LookupFailed ==
    \E i \in 1..Len(trace) :
        /\ trace[i].fn \in {"GetModuleHandleA", "GetProcAddress"}
        /\ trace[i].result = NULL

\* C6: when the module lookup or the symbol lookup returns NULL, the stub
\* returns 0xffff and never calls the entry point.
C6_SentinelOnLookupFailure ==
    LookupFailed
        => /\ \A i \in 1..Len(trace) : trace[i].fn # "JVM_EnqueueOperation"
           /\ spc \in {"return_error", "done"}
           /\ spc = "done" => exitCode = <<255, 255, 0, 0>>

C6_Witness ==
    /\ spc = "done"
    /\ \E i \in 1..Len(trace) :
        trace[i].fn = "GetProcAddress" /\ trace[i].result = NULL

\* C7: when both lookups succeed, the stub's return value is the entry point's
\* return value, and the entry point was called with the addresses of
\* argument[0], argument[1], argument[2], argument[3] and pipe, in that order.
C7_ReturnsEntryPointResult ==
    (spc = "done" /\ library # NULL /\ entry # NULL)
        => /\ Len(exitCode) = 4
           /\ DwordAsInt(exitCode) = entryReturn
           /\ LET last == trace[Len(trace)]
              IN  /\ last.fn = "JVM_EnqueueOperation"
                  /\ last.result = entryReturn
                  /\ last.args = <<StubArgument + OffArgument(0),
                                   StubArgument + OffArgument(1),
                                   StubArgument + OffArgument(2),
                                   StubArgument + OffArgument(3),
                                   StubArgument + OffPipe>>

C7_Witness ==
    /\ spc = "done"
    /\ library # NULL
    /\ entry # NULL
    /\ entryReturn = -1
    /\ exitCode = <<255, 255, 255, 255>>

\* C10: the module lookup goes through the block's first function pointer with
\* the library field and comes first; the symbol lookup goes through the
\* second pointer with the command field, only after the module lookup
\* returned a non-NULL handle, and is given that handle; the entry point is
\* called at most once and only after both lookups returned non-NULL.
C10_StubStepsInOrder ==
    LET calls == BlockCalls
    IN  /\ Len(calls) <= 3
        /\ \A i \in 1..Len(calls) :
            /\ i = 1 <=> calls[i].via = "operation->GetModuleHandleA"
            /\ i = 1 => calls[i].args = <<StubArgument + OffLibrary>>
            /\ calls[i].via = "operation->GetProcAddress"
                => /\ i = 2
                   /\ calls[1].result # NULL
                   /\ calls[i].args = <<calls[1].result, StubArgument + OffCommand>>
            /\ calls[i].fn = "JVM_EnqueueOperation"
                => /\ i = 3
                   /\ calls[1].result # NULL
                   /\ calls[2].via = "operation->GetProcAddress"
                   /\ calls[2].result # NULL

C10_Witness ==
    /\ spc = "done"
    /\ Len(BlockCalls) = 3
    /\ BlockCalls[3].fn = "JVM_EnqueueOperation"

====
